---------------------------- MODULE Spec2Model ----------------------------
(***************************************************************************)
(* Model of src/listing/ch06.control_structures/src/value.rs: the Value    *)
(* tagged union, its equality (PartialEq::eq), strict identity (same),     *)
(* hashing (Hash::hash), the string size-class conversions, the shared     *)
(* Table behind Rc<RefCell<..>> and the two formatters.                    *)
(*                                                                         *)
(* Numbers.  TLC's integers are 32 bits wide, so a 64-bit pattern is the   *)
(* set of the positions of its one bits: an i64 is a subset of 0..63 read  *)
(* in two's complement, and a finite f64 is a sign and the set of the      *)
(* exponents k of the powers 2^k that sum to its magnitude (at most 53     *)
(* consecutive positions, the width of the significand).  Subnormal floats *)
(* are not drawn.                                                          *)
(*                                                                         *)
(* Places.  eq takes two references.  A reference is the place a Value is  *)
(* stored at together with the Value stored there; the Function arm of eq  *)
(* compares the places.                                                    *)
(***************************************************************************)
EXTENDS Integers, Sequences, FiniteSets, TLC

VARIABLES
    stack,   \* the Values the callers hold: slot -> Value
    heap,    \* the Rc<RefCell<Table>> allocations: address -> cell or NoTable
    guards,  \* the Ref / RefMut guard a caller took through a slot
    input,   \* the byte buffer a caller hands to the construction surface
    out      \* what the last operation returned (or that it panicked)

vars == <<stack, heap, guards, input, out>>

---------------------------------------------------------------------------
(* Program constants *)

SHORT_STR_MAX == 14

MID_STR_MAX == 47

I64_BITS == 64

F64_MANTISSA_DIGITS == 53

F64_EXP_BIAS == 1023

F64_EXP_BITS == 11

(* Bounds of the model *)

NSlots == 2

MaxTables == 2

MaxArray == 1

MaxLen == 50

Slots == 1..NSlots

TableAddrs == 1..MaxTables

(* The native callbacks: code addresses, apart from the heap's. *)
Callbacks == {MaxTables + 1, MaxTables + 2}

---------------------------------------------------------------------------
(* 64-bit integers and IEEE doubles as sets of bit positions *)

SetMax(S) == CHOOSE x \in S : \A y \in S : y <= x

SetMin(S) == CHOOSE x \in S : \A y \in S : x <= y

BitRange == 0..(I64_BITS - 1)

\* S + 2^p on bit sets, modulo 2^64: the carry runs up to the first clear bit.
AddBit(S, p) ==
    LET clear == {j \in p..I64_BITS : j \notin S}
        k == SetMin(clear)
    IN  ((S \ (p..(k - 1))) \cup {k}) \cap BitRange

\* Two's complement negation, modulo 2^64.
Negate(S) == AddBit(BitRange \ S, 0)

I64_MAX == 0..(I64_BITS - 2)

I64_MIN == {I64_BITS - 1}

IsNegative(i) == (I64_BITS - 1) \in i

FNaN == [cls |-> "nan", neg |-> FALSE, bits |-> {}]

FInf(neg) == [cls |-> "inf", neg |-> neg, bits |-> {}]

FFin(neg, bits) == [cls |-> "fin", neg |-> neg, bits |-> bits]

\* `i as f64`: the nearest double, ties to even.
IntToFloat(i) ==
    LET neg == IsNegative(i)
        mag == IF neg THEN Negate(i) ELSE i
    IN  IF mag = {} THEN FFin(FALSE, {})
        ELSE LET top == SetMax(mag)
                 p == top - (F64_MANTISSA_DIGITS - 1)
             IN  IF p <= 0 THEN FFin(neg, mag)
                 ELSE LET kept == {k \in mag : k >= p}
                          guard == (p - 1) \in mag
                          sticky == \E k \in mag : k < p - 1
                          up == guard /\ (sticky \/ p \in mag)
                      IN  FFin(neg, IF up THEN AddBit(kept, p) ELSE kept)

\* `f as i64`: truncation towards zero, saturating, NaN to 0.
FloatToInt(f) ==
    CASE f.cls = "nan" -> {}
      [] f.cls = "inf" -> IF f.neg THEN I64_MIN ELSE I64_MAX
      [] OTHER ->
            IF f.bits = {} THEN {}
            ELSE IF SetMax(f.bits) >= I64_BITS - 1
                 THEN IF f.neg THEN I64_MIN ELSE I64_MAX
                 ELSE LET mag == {k \in f.bits : k >= 0}
                      IN  IF f.neg THEN Negate(mag) ELSE mag

\* `f1 == f2` on f64: IEEE comparison.
FloatEq(f1, f2) ==
    /\ f1.cls # "nan"
    /\ f2.cls # "nan"
    /\ \/ f1 = f2
       \/ f1.cls = "fin" /\ f2.cls = "fin" /\ f1.bits = {} /\ f2.bits = {}

RECURSIVE Pow2(_)

Pow2(n) == IF n = 0 THEN 1 ELSE 2 * Pow2(n - 1)

\* `f.to_bits() as i64`: sign, biased exponent, fraction.
ToBits(f) ==
    LET sign == IF f.neg THEN {I64_BITS - 1} ELSE {}
        fracw == F64_MANTISSA_DIGITS - 1
        expAll == fracw..(fracw + F64_EXP_BITS - 1)
    IN  CASE f.cls = "nan" -> expAll \cup {fracw - 1}
          [] f.cls = "inf" -> sign \cup expAll
          [] OTHER ->
                IF f.bits = {} THEN sign
                ELSE LET top == SetMax(f.bits)
                         e == top + F64_EXP_BIAS
                     IN  sign
                         \cup {fracw + j : j \in
                                 {j \in 0..(F64_EXP_BITS - 1) : (e \div Pow2(j)) % 2 = 1}}
                         \cup {k - top + fracw : k \in f.bits \ {top}}

None == [some |-> FALSE]

Some(x) == [some |-> TRUE, v |-> x]

\* crate::utils::ftoi: the integer a float holds exactly, if any.
ftoi(f) ==
    LET i == FloatToInt(f)
    IN  IF FloatEq(IntToFloat(i), f) THEN Some(i) ELSE None

---------------------------------------------------------------------------
(* enum Value *)

Nil == [tag |-> "Nil"]

Boolean(b) == [tag |-> "Boolean", b |-> b]

Integer(i) == [tag |-> "Integer", i |-> i]

Float(f) == [tag |-> "Float", f |-> f]

ShortStr(len, buf) == [tag |-> "ShortStr", len |-> len, buf |-> buf]

\* MidStr(Rc<(u8, [u8; MID_STR_MAX])>): the shared pair, immutable.
MidStr(len, buf) == [tag |-> "MidStr", mlen |-> len, mbuf |-> buf]

\* LongStr(Rc<Vec<u8>>): the shared vector, immutable.
LongStr(v) == [tag |-> "LongStr", vec |-> v]

\* Table(Rc<RefCell<Table>>): the address of the shared cell.
Table(a) == [tag |-> "Table", rc |-> a]

\* Function(fn (&mut ExeState) -> i32): the callback's code address.
Function(fp) == [tag |-> "Function", fp |-> fp]

StrTags == {"ShortStr", "MidStr", "LongStr"}

\* `&buf[..len]`
Slice(buf, len) == SubSeq(buf, 1, len)

\* `[0; n]` with `buf[..len].copy_from_slice(v)`
Padded(v, n) == [k \in 1..n |-> IF k <= Len(v) THEN v[k] ELSE 0]

\* A reference `&Value`: where the Value is stored, and the Value there.
Ref(place, v) == [place |-> place, v |-> v]

StackRef(s) == Ref(<<"stack", s>>, stack[s])

(* impl PartialEq for Value *)

eq_DeepTable(self, other) ==
    LET a == self.v
        b == other.v
    IN  CASE a.tag = "Nil" /\ b.tag = "Nil" -> TRUE
          [] a.tag = "Boolean" /\ b.tag = "Boolean" -> a.b = b.b
          [] a.tag = "Integer" /\ b.tag = "Integer" -> a.i = b.i
          [] a.tag = "Integer" /\ b.tag = "Float" ->
                FloatEq(IntToFloat(a.i), b.f) /\ a.i = FloatToInt(b.f)
          [] a.tag = "Float" /\ b.tag = "Integer" ->
                FloatEq(IntToFloat(b.i), a.f) /\ b.i = FloatToInt(a.f)
          [] a.tag = "Float" /\ b.tag = "Float" -> FloatEq(a.f, b.f)
          [] a.tag = "ShortStr" /\ b.tag = "ShortStr" ->
                Slice(a.buf, a.len) = Slice(b.buf, b.len)
          [] a.tag = "MidStr" /\ b.tag = "MidStr" ->
                Slice(a.mbuf, a.mlen) = Slice(b.mbuf, b.mlen)
          [] a.tag = "LongStr" /\ b.tag = "LongStr" -> a.vec = b.vec
          [] a.tag = "Table" /\ b.tag = "Table" ->
                /\ heap[a.rc].array = heap[b.rc].array
                /\ heap[a.rc].map = heap[b.rc].map
          [] a.tag = "Function" /\ b.tag = "Function" -> self.place = other.place
          [] OTHER -> FALSE

eq(self, other) ==
    LET a == self.v
        b == other.v
    IN  CASE a.tag = "Nil" /\ b.tag = "Nil" -> TRUE
          [] a.tag = "Boolean" /\ b.tag = "Boolean" -> a.b = b.b
          [] a.tag = "Integer" /\ b.tag = "Integer" -> a.i = b.i
          [] a.tag = "Integer" /\ b.tag = "Float" ->
                FloatEq(IntToFloat(a.i), b.f) /\ a.i = FloatToInt(b.f)
          [] a.tag = "Float" /\ b.tag = "Integer" ->
                FloatEq(IntToFloat(b.i), a.f) /\ b.i = FloatToInt(a.f)
          [] a.tag = "Float" /\ b.tag = "Float" -> FloatEq(a.f, b.f)
          [] a.tag = "ShortStr" /\ b.tag = "ShortStr" ->
                Slice(a.buf, a.len) = Slice(b.buf, b.len)
          [] a.tag = "MidStr" /\ b.tag = "MidStr" ->
                Slice(a.mbuf, a.mlen) = Slice(b.mbuf, b.mlen)
          [] a.tag = "LongStr" /\ b.tag = "LongStr" -> a.vec = b.vec
          \* Rc::as_ptr(t1) == Rc::as_ptr(t2)
          [] a.tag = "Table" /\ b.tag = "Table" -> a.rc = b.rc
          \* std::ptr::eq(f1, f2) with f1, f2 : &fn(..): the addresses of
          \* the two fields holding the pointers, not the pointers.
          [] a.tag = "Function" /\ b.tag = "Function" -> self.place = other.place
          [] OTHER -> FALSE

\* mem::discriminant
discriminant(v) == v.tag

same_NoDiscriminant(self, other) == eq(self, other)

\* Value::same
same(self, other) ==
    discriminant(self.v) = discriminant(other.v) /\ eq(self, other)

(* impl Hash for Value: the writes the Hasher receives, in order *)

WriteU8(n) == [w |-> "u8", n |-> n]

WriteI64(i) == [w |-> "i64", bits |-> i]

WriteUsize(n) == [w |-> "usize", n |-> n]

WriteBytes(data) == [w |-> "bytes", data |-> data]

\* <[u8] as Hash>::hash: the length prefix, then the bytes.
HashSlice(data) == <<WriteUsize(Len(data)), WriteBytes(data)>>

hash_FloatBits(v) ==
    CASE v.tag = "Nil" -> <<>>
      [] v.tag = "Boolean" -> <<WriteU8(IF v.b THEN 1 ELSE 0)>>
      [] v.tag = "Integer" -> <<WriteI64(v.i)>>
      [] v.tag = "Float" -> <<WriteI64(ToBits(v.f))>>
      [] v.tag = "ShortStr" -> HashSlice(Slice(v.buf, v.len))
      [] v.tag = "MidStr" -> HashSlice(Slice(v.mbuf, v.mlen))
      [] v.tag = "LongStr" -> HashSlice(v.vec)
      [] v.tag = "Table" -> <<WriteUsize(v.rc)>>
      [] v.tag = "Function" -> <<WriteUsize(v.fp)>>

hash(v) ==
    CASE v.tag = "Nil" -> <<>>
      [] v.tag = "Boolean" -> <<WriteU8(IF v.b THEN 1 ELSE 0)>>
      [] v.tag = "Integer" -> <<WriteI64(v.i)>>
      [] v.tag = "Float" ->
            LET r == ftoi(v.f)
            IN  IF r.some THEN <<WriteI64(r.v)>>
                ELSE <<WriteI64(ToBits(v.f))>>
      [] v.tag = "ShortStr" -> HashSlice(Slice(v.buf, v.len))
      [] v.tag = "MidStr" -> HashSlice(Slice(v.mbuf, v.mlen))
      [] v.tag = "LongStr" -> HashSlice(v.vec)
      [] v.tag = "Table" -> <<WriteUsize(v.rc)>>
      [] v.tag = "Function" -> <<WriteUsize(v.fp)>>

(* Construction surface *)

From_unit == Nil

From_bool(b) == Boolean(b)

From_f64(n) == Float(n)

From_i64(n) == Integer(n)

vec_to_short_mid_str_MidAt14(v) ==
    LET len == Len(v)
    IN  IF len < SHORT_STR_MAX
        THEN Some(ShortStr(len, Padded(v, SHORT_STR_MAX)))
        ELSE IF len <= MID_STR_MAX
             THEN Some(MidStr(len, Padded(v, MID_STR_MAX)))
             ELSE None

vec_to_short_mid_str(v) ==
    LET len == Len(v)
    IN  IF len <= SHORT_STR_MAX
        THEN Some(ShortStr(len, Padded(v, SHORT_STR_MAX)))
        ELSE IF len <= MID_STR_MAX
             THEN Some(MidStr(len, Padded(v, MID_STR_MAX)))
             ELSE None

\* From<&[u8]>
From_slice(v) ==
    LET r == vec_to_short_mid_str(v)
    IN  IF r.some THEN r.v ELSE LongStr(v)

\* From<Vec<u8>>
From_vec(v) ==
    LET r == vec_to_short_mid_str(v)
    IN  IF r.some THEN r.v ELSE LongStr(v)

\* From<&str>: s.as_bytes().into()
From_str(s) == From_slice(s)

\* From<String>: s.into_bytes().into()
From_String(s) == From_vec(s)

From_bytes(via, v) ==
    CASE via = "slice" -> From_slice(v)
      [] via = "vec" -> From_vec(v)
      [] via = "str" -> From_str(v)
      [] via = "String" -> From_String(v)

(* Extraction surface *)

Panic(msg) == [ok |-> FALSE, panic |-> msg]

into_bytes_WholeBuffer(v) ==
    CASE v.tag = "ShortStr" -> [ok |-> TRUE, bytes |-> v.buf]
      [] v.tag = "MidStr" -> [ok |-> TRUE, bytes |-> v.mbuf]
      [] v.tag = "LongStr" -> [ok |-> TRUE, bytes |-> v.vec]
      [] OTHER -> Panic("invalid string Value")

\* From<&Value> for &[u8]
into_bytes(v) ==
    CASE v.tag = "ShortStr" -> [ok |-> TRUE, bytes |-> Slice(v.buf, v.len)]
      [] v.tag = "MidStr" -> [ok |-> TRUE, bytes |-> Slice(v.mbuf, v.mlen)]
      [] v.tag = "LongStr" -> [ok |-> TRUE, bytes |-> v.vec]
      [] OTHER -> Panic("invalid string Value")

\* A str is its UTF-8 bytes.  The bytes drawn here are ASCII or 0xFF, and
\* 0xFF occurs in no UTF-8 sequence.
IsUtf8(bytes) == \A k \in 1..Len(bytes) : bytes[k] < 128

\* String::from_utf8_lossy on such bytes: U+FFFD for each 0xFF.
from_utf8_lossy(bytes) ==
    [k \in 1..Len(bytes) |-> IF bytes[k] < 128 THEN bytes[k] ELSE 65533]

---------------------------------------------------------------------------
(* struct Table behind Rc<RefCell<..>> *)

\* Table::new: both parts empty; the capacity hints reserve room only.
Table_new(narray, nmap) == [array |-> <<>>, map |-> <<>>]

\* An address of the heap holding no RefCell<Table>.
FreeCell == [live |-> FALSE, borrow |-> 0, array |-> <<>>, map |-> <<>>]

\* Rc::new(RefCell::new(t)): the borrow flag starts at 0 (unused).
NewCell(t) == [live |-> TRUE, borrow |-> 0, array |-> t.array, map |-> t.map]

\* Rc::strong_count: the Values that share the cell.
StrongCount(stk, a) == Cardinality({s \in Slots : stk[s] = Table(a)})

\* Dropping the last Rc frees the cell.
DropUnshared(h, stk) ==
    [a \in TableAddrs |-> IF StrongCount(stk, a) = 0 THEN FreeCell ELSE h[a]]

\* HashMap<Value, Value>::insert: the entry whose key hashes alike and is
\* == to k gets the new value; without one, a new entry.
MapInsert(m, a, k, v) ==
    LET hit == {n \in 1..Len(m) :
                   /\ hash(m[n].k) = hash(k)
                   /\ eq(Ref(<<"arg">>, k), Ref(<<"map", a, n>>, m[n].k))}
    IN  IF hit # {} THEN [m EXCEPT ![SetMin(hit)].v = v]
        ELSE Append(m, [k |-> k, v |-> v])

(* impl fmt::Display / fmt::Debug for Value: the text, piece by piece *)

fmt_Display(v) ==
    CASE v.tag = "Nil" -> [ok |-> TRUE, lit |-> "nil"]
      [] v.tag = "Boolean" -> [ok |-> TRUE, lit |-> IF v.b THEN "true" ELSE "false"]
      [] v.tag = "Integer" -> [ok |-> TRUE, decimal |-> v.i]
      [] v.tag = "Float" -> [ok |-> TRUE, float |-> v.f]
      [] v.tag = "ShortStr" ->
            [ok |-> TRUE, quote |-> "", chars |-> from_utf8_lossy(Slice(v.buf, v.len))]
      [] v.tag = "MidStr" ->
            [ok |-> TRUE, quote |-> "", chars |-> from_utf8_lossy(Slice(v.mbuf, v.mlen))]
      [] v.tag = "LongStr" ->
            [ok |-> TRUE, quote |-> "", chars |-> from_utf8_lossy(v.vec)]
      [] v.tag = "Table" -> [ok |-> TRUE, lit |-> "table: ", ptr |-> v.rc]
      [] v.tag = "Function" -> [ok |-> TRUE, lit |-> "function"]

fmt_Debug(v, h) ==
    CASE v.tag = "Nil" -> [ok |-> TRUE, lit |-> "nil"]
      [] v.tag = "Boolean" -> [ok |-> TRUE, lit |-> IF v.b THEN "true" ELSE "false"]
      [] v.tag = "Integer" -> [ok |-> TRUE, decimal |-> v.i]
      [] v.tag = "Float" -> [ok |-> TRUE, float |-> v.f]
      [] v.tag = "ShortStr" ->
            [ok |-> TRUE, quote |-> "'", chars |-> from_utf8_lossy(Slice(v.buf, v.len))]
      [] v.tag = "MidStr" ->
            [ok |-> TRUE, quote |-> "\"", chars |-> from_utf8_lossy(Slice(v.mbuf, v.mlen))]
      [] v.tag = "LongStr" ->
            [ok |-> TRUE, quote |-> "'''", chars |-> from_utf8_lossy(v.vec)]
      \* t.borrow() panics while a RefMut is out (the flag is negative);
      \* the Ref it returns is dropped when fmt returns.
      [] v.tag = "Table" ->
            IF h[v.rc].borrow < 0 THEN Panic("already mutably borrowed")
            ELSE [ok |-> TRUE, lit |-> "table:",
                  alen |-> Len(h[v.rc].array), mlen |-> Len(h[v.rc].map)]
      [] v.tag = "Function" -> [ok |-> TRUE, lit |-> "function"]

---------------------------------------------------------------------------
(* The inputs the callers draw *)

NatBits(n) == {j \in 0..30 : (n \div Pow2(j)) % 2 = 1}

Asc(len) == [k \in 1..len |-> 97 + ((k - 1) % 26)]

Zeros(len) == [k \in 1..len |-> 0]

\* ASCII with a last byte that is not UTF-8.
AscFF(len) == [k \in 1..len |-> IF k = len THEN 255 ELSE 97 + ((k - 1) % 26)]

\* Every length up to MaxLen, in three fillings.
CodecInputs ==
    {Asc(n) : n \in 0..MaxLen} \cup {Zeros(n) : n \in 0..MaxLen}
        \cup {AscFF(n) : n \in 0..MaxLen}

NumInts ==
    { NatBits(0), NatBits(1), NatBits(2), Negate(NatBits(1)),
      {F64_MANTISSA_DIGITS}, {F64_MANTISSA_DIGITS, 0}, {F64_MANTISSA_DIGITS, 1},
      {I64_BITS - 2}, I64_MAX, I64_MAX \ {0}, I64_MIN, I64_MIN \cup {0} }

NumFloats ==
    { FFin(FALSE, {}), FFin(TRUE, {}), FFin(FALSE, {0}), FFin(TRUE, {0}),
      FFin(FALSE, {0, -1}), FFin(FALSE, {-1}), FFin(FALSE, {1}),
      FFin(FALSE, {F64_MANTISSA_DIGITS}), FFin(FALSE, {F64_MANTISSA_DIGITS, 1}),
      FFin(FALSE, {I64_BITS - 2}),
      FFin(FALSE, (I64_BITS - F64_MANTISSA_DIGITS - 1)..(I64_BITS - 2)),
      FFin(FALSE, {I64_BITS - 1}), FFin(TRUE, {I64_BITS - 1}),
      FFin(FALSE, {I64_BITS}), FFin(TRUE, {I64_BITS}),
      FNaN, FInf(FALSE), FInf(TRUE) }

\* What the equality specification draws.  Numbers: 1 and the largest
\* integer; both zeros, 1.0, 2^63 and NaN.  Byte strings: one of each size
\* class, and a string and the same string followed by a zero byte.
EqInts == {NatBits(1), I64_MAX}

EqFloats ==
    { FFin(FALSE, {}), FFin(TRUE, {}), FFin(FALSE, {0}),
      FFin(FALSE, {I64_BITS - 1}), FNaN }

EqBytes ==
    { Asc(10), Asc(SHORT_STR_MAX + 1), Asc(MID_STR_MAX + 1),
      <<97>>, <<97, 0>> }


\* The keys a caller inserts: an Integer and the Float equal to it.
PutKeys == {From_i64(NatBits(1)), From_f64(FFin(FALSE, {0}))}

Vias == {"slice", "vec", "str", "String"}

NoOut == [op |-> "none", ok |-> TRUE]

---------------------------------------------------------------------------
(* The state machine *)

Init ==
    /\ stack = [s \in Slots |-> Nil]
    /\ heap = [a \in TableAddrs |-> FreeCell]
    /\ guards = [s \in Slots |-> "none"]
    /\ input = <<>>
    /\ out = NoOut

\* `*slot = v`: the old Value is dropped after v is built.  The borrow
\* checker forbids it while a guard borrowed through the slot is alive.
Assign(s, v, h) ==
    /\ guards[s] = "none"
    /\ stack' = [stack EXCEPT ![s] = v]
    /\ heap' = DropUnshared(h, stack')
    /\ UNCHANGED <<guards, input>>

FromUnit(s) == Assign(s, From_unit, heap) /\ out' = NoOut

FromBool(s, b) == Assign(s, From_bool(b), heap) /\ out' = NoOut

FromI64(s, i) == Assign(s, From_i64(i), heap) /\ out' = NoOut

FromF64(s, f) == Assign(s, From_f64(f), heap) /\ out' = NoOut

\* One of the four conversions from bytes; a str or String is UTF-8.
FromBytes(s, via, v) ==
    /\ via \in {"str", "String"} => IsUtf8(v)
    /\ Assign(s, From_bytes(via, v), heap)
    /\ out' = NoOut

\* The enum's variants are public: a caller builds a MidStr or a LongStr
\* of any length that fits.
MakeMidStr(s, v) ==
    /\ Len(v) <= MID_STR_MAX
    /\ Assign(s, MidStr(Len(v), Padded(v, MID_STR_MAX)), heap)
    /\ out' = NoOut

MakeLongStr(s, v) == Assign(s, LongStr(v), heap) /\ out' = NoOut

MakeFunction(s, fp) == Assign(s, Function(fp), heap) /\ out' = NoOut

\* Value::Table(Rc::new(RefCell::new(Table::new(..)))): the allocator hands
\* out any address that holds no live cell.
NewTable(s) ==
    \E a \in TableAddrs :
        /\ ~heap[a].live
        /\ Assign(s, Table(a), [heap EXCEPT ![a] = NewCell(Table_new(0, 0))])
        /\ out' = NoOut

\* #[derive(Clone)]: a copy of the Value; an Rc is shared, not copied.
Clone(src, dst) ==
    /\ src # dst
    /\ Assign(dst, stack[src], heap)
    /\ out' = NoOut

\* RefCell::borrow through the Table in slot s, the Ref kept.
Borrow(s) ==
    /\ stack[s].tag = "Table"
    /\ guards[s] = "none"
    /\ LET a == stack[s].rc
       IN  IF heap[a].borrow < 0
           THEN /\ out' = [op |-> "borrow", ok |-> FALSE]
                /\ UNCHANGED <<stack, heap, guards, input>>
           ELSE /\ heap' = [heap EXCEPT ![a].borrow = @ + 1]
                /\ guards' = [guards EXCEPT ![s] = "ref"]
                /\ out' = NoOut
                /\ UNCHANGED <<stack, input>>

\* RefCell::borrow_mut through the Table in slot s, the RefMut kept.
BorrowMut(s) ==
    /\ stack[s].tag = "Table"
    /\ guards[s] = "none"
    /\ LET a == stack[s].rc
       IN  IF heap[a].borrow # 0
           THEN /\ out' = [op |-> "borrow_mut", ok |-> FALSE]
                /\ UNCHANGED <<stack, heap, guards, input>>
           ELSE /\ heap' = [heap EXCEPT ![a].borrow = -1]
                /\ guards' = [guards EXCEPT ![s] = "refmut"]
                /\ out' = NoOut
                /\ UNCHANGED <<stack, input>>

\* Dropping the guard gives the borrow back.
Release(s) ==
    /\ guards[s] # "none"
    /\ LET a == stack[s].rc
       IN  heap' = [heap EXCEPT ![a].borrow =
                        IF guards[s] = "ref" THEN @ - 1 ELSE @ + 1]
    /\ guards' = [guards EXCEPT ![s] = "none"]
    /\ out' = NoOut
    /\ UNCHANGED <<stack, input>>

\* `guard.array.push(v)` by the holder of the RefMut.  The Values the
\* callers store in a Table here are numbers and booleans, which share
\* nothing.
ArrayPush(s, v) ==
    /\ guards[s] = "refmut"
    /\ LET a == stack[s].rc
       IN  /\ Len(heap[a].array) < MaxArray
           /\ heap' = [heap EXCEPT ![a].array = Append(@, v)]
    /\ out' = NoOut
    /\ UNCHANGED <<stack, guards, input>>

\* `guard.map.insert(k, v)` by the holder of the RefMut.
MapPut(s, k, v) ==
    /\ guards[s] = "refmut"
    /\ LET a == stack[s].rc
       IN  heap' = [heap EXCEPT ![a].map = MapInsert(@, a, k, v)]
    /\ out' = NoOut
    /\ UNCHANGED <<stack, guards, input>>

\* format!("{}", v)
Display(s) ==
    /\ out' = [op |-> "display", ok |-> fmt_Display(stack[s]).ok,
               text |-> fmt_Display(stack[s])]
    /\ UNCHANGED <<stack, heap, guards, input>>

\* format!("{:?}", v)
Debug(s) ==
    /\ out' = [op |-> "debug", ok |-> fmt_Debug(stack[s], heap).ok,
               text |-> fmt_Debug(stack[s], heap)]
    /\ UNCHANGED <<stack, heap, guards, input>>

\* <&[u8]>::from(&v)
IntoBytes(s) ==
    /\ out' = [op |-> "into", ok |-> into_bytes(stack[s]).ok,
               res |-> into_bytes(stack[s])]
    /\ UNCHANGED <<stack, heap, guards, input>>

\* The whole machine, each operation on one input of each kind.
Next ==
    \/ \E s \in Slots : FromUnit(s)
    \/ \E s \in Slots : FromBool(s, TRUE)
    \/ \E s \in Slots : FromI64(s, NatBits(1))
    \/ \E s \in Slots : FromF64(s, FFin(FALSE, {0}))
    \/ \E s \in Slots, via \in Vias : FromBytes(s, via, Asc(10))
    \/ \E s \in Slots : MakeMidStr(s, Asc(10))
    \/ \E s \in Slots : MakeLongStr(s, Asc(10))
    \/ \E s \in Slots : MakeFunction(s, MaxTables + 1)
    \/ \E s \in Slots : NewTable(s)
    \/ \E src \in Slots, dst \in Slots : Clone(src, dst)
    \/ \E s \in Slots : Borrow(s)
    \/ \E s \in Slots : BorrowMut(s)
    \/ \E s \in Slots : Release(s)
    \/ \E s \in Slots : ArrayPush(s, From_i64(NatBits(1)))
    \/ \E s \in Slots, k \in PutKeys : MapPut(s, k, From_bool(TRUE))
    \/ \E s \in Slots : Display(s)
    \/ \E s \in Slots : Debug(s)
    \/ \E s \in Slots : IntoBytes(s)

Spec == Init /\ [][Next]_vars

\* The Values of every variant, built and cloned, for eq, same and hash.
NextEq ==
    \/ \E s \in Slots : FromUnit(s)
    \/ \E s \in Slots, b \in BOOLEAN : FromBool(s, b)
    \/ \E s \in Slots, i \in EqInts : FromI64(s, i)
    \/ \E s \in Slots, f \in EqFloats : FromF64(s, f)
    \/ \E s \in Slots, via \in Vias, v \in EqBytes : FromBytes(s, via, v)
    \/ \E s \in Slots : MakeMidStr(s, Asc(10))
    \/ \E s \in Slots : MakeLongStr(s, Asc(10))
    \/ \E s \in Slots, fp \in Callbacks : MakeFunction(s, fp)
    \/ \E s \in Slots : NewTable(s)
    \/ \E src \in Slots, dst \in Slots : Clone(src, dst)

SpecEq == Init /\ [][NextEq]_vars

\* Integers against Floats, over the edges of both ranges.
NextNum ==
    \/ \E s \in Slots, i \in NumInts : FromI64(s, i)
    \/ \E s \in Slots, f \in NumFloats : FromF64(s, f)

SpecNum == Init /\ [][NextNum]_vars

\* Tables: constructed, shared, borrowed, mutated and dropped.
NextTable ==
    \/ \E s \in Slots : FromUnit(s)
    \/ \E s \in Slots : NewTable(s)
    \/ \E src \in Slots, dst \in Slots : Clone(src, dst)
    \/ \E s \in Slots : Borrow(s)
    \/ \E s \in Slots : BorrowMut(s)
    \/ \E s \in Slots : Release(s)
    \/ \E s \in Slots : ArrayPush(s, From_i64(NatBits(1)))
    \/ \E s \in Slots, k \in PutKeys : MapPut(s, k, From_bool(TRUE))

SpecTable == Init /\ [][NextTable]_vars

\* The string codec on one buffer of the caller's.
InitCodec ==
    /\ stack = [s \in Slots |-> Nil]
    /\ heap = [a \in TableAddrs |-> FreeCell]
    /\ guards = [s \in Slots |-> "none"]
    /\ input \in CodecInputs
    /\ out = NoOut

NextCodec ==
    \/ \E via \in Vias : FromBytes(1, via, input)
    \/ IntoBytes(1)

SpecCodec == InitCodec /\ [][NextCodec]_vars

---------------------------------------------------------------------------
(* Properties *)

IsStr(v) == v.tag \in StrTags

Eq(a, b) == eq(StackRef(a), StackRef(b))

Same(a, b) == same(StackRef(a), StackRef(b))

\* C1: Values that are == feed the Hasher the same sequence of writes,
\* whatever their variants: an Integer and the Float equal to it, the two
\* zeros, strings, Tables, Functions.
C1_EqImpliesHashEq ==
    \A a, b \in Slots : Eq(a, b) => hash(stack[a]) = hash(stack[b])

\* An Integer and a Float that are ==, and the two zeros, held at once.
C1_Witness ==
    \/ \E a, b \in Slots :
          /\ stack[a].tag = "Integer" /\ stack[b].tag = "Float" /\ Eq(a, b)
          /\ stack[a].i = I64_MAX
    \/ \E a, b \in Slots :
          /\ stack[a] = Float(FFin(FALSE, {})) /\ stack[b] = Float(FFin(TRUE, {}))
          /\ Eq(a, b)

\* A float no i64 holds: NaN, an infinity, 2^63 or more, less than -2^63.
OutOfI64Range(f) ==
    \/ f.cls # "fin"
    \/ /\ f.bits # {}
       /\ SetMax(f.bits) >= I64_BITS - 1
       /\ ~(f.neg /\ f.bits = {I64_BITS - 1})

\* C2: an Integer i and a Float f are ==, in either order, exactly when
\* f == i as f64 and f as i64 == i; and they are not == when f is NaN, an
\* infinity or outside the range of i64 (2^63 against the largest integer).
C2_IntFloatEq ==
    \A a, b \in Slots :
        (stack[a].tag = "Integer" /\ stack[b].tag = "Float") =>
            LET i == stack[a].i
                f == stack[b].f
            IN  /\ Eq(a, b) = Eq(b, a)
                /\ Eq(a, b) <=> (FloatEq(f, IntToFloat(i)) /\ FloatToInt(f) = i)
                /\ OutOfI64Range(f) => ~Eq(a, b)

\* C3: two string Values are == exactly when their bytes are equal,
\* whatever the size class of each, and then they hash alike.
C3_StrEqByContent ==
    \A a, b \in Slots :
        (IsStr(stack[a]) /\ IsStr(stack[b])) =>
            /\ Eq(a, b) <=> (into_bytes(stack[a]).bytes = into_bytes(stack[b]).bytes)
            /\ Eq(a, b) => hash(stack[a]) = hash(stack[b])

\* C4: two Function Values are == exactly when they hold the same
\* callback, a clone and its source included.
C4_FunctionEqByCallback ==
    \A a, b \in Slots :
        (stack[a].tag = "Function" /\ stack[b].tag = "Function") =>
            (Eq(a, b) <=> stack[a].fp = stack[b].fp)

\* C5: the conversions from bytes choose the variant by the length alone:
\* up to 14 bytes a ShortStr, 15 to 47 a MidStr, 48 and more a LongStr, the
\* stored length being the length of the input; every length is converted.
C5_SizeClassByLength ==
    stack[1] # Nil =>
        LET n == Len(input)
            v == stack[1]
        IN  /\ IsStr(v)
            /\ n <= 14 => (v.tag = "ShortStr" /\ v.len = n)
            /\ (15 <= n /\ n <= 47) => (v.tag = "MidStr" /\ v.mlen = n)
            /\ n >= 48 => (v.tag = "LongStr" /\ Len(v.vec) = n)

\* Each boundary length has been converted.
C5_Witness ==
    /\ Len(input) \in {14, 15, 47, 48}
    /\ stack[1].tag = (CASE Len(input) = 14 -> "ShortStr"
                         [] Len(input) = 48 -> "LongStr"
                         [] OTHER -> "MidStr")

\* C6: decoding the Value built from a byte sequence returns that byte
\* sequence: the same length, the same bytes, no padding.
C6_RoundTrip ==
    (out.op = "into" /\ stack[1] # Nil) =>
        /\ out.ok
        /\ out.res.bytes = input

\* A MidStr shorter than its buffer, ending in zero bytes of its own, decoded.
C6_Witness ==
    /\ out.op = "into"
    /\ out.ok
    /\ stack[1].tag = "MidStr"
    /\ input = Zeros(15)

IntFloatPair(a, b) == {stack[a].tag, stack[b].tag} = {"Integer", "Float"}

\* C7: same(a, b) holds exactly when a and b have the same variant and are
\* ==; it is false on every Integer/Float pair, and it agrees with == on
\* every other pair of variants.
C7_SameIsTagAndEq ==
    \A a, b \in Slots :
        /\ Same(a, b) <=> (stack[a].tag = stack[b].tag /\ Eq(a, b))
        /\ IntFloatPair(a, b) => ~Same(a, b)
        /\ ~IntFloatPair(a, b) => (Same(a, b) <=> Eq(a, b))

\* Integer(1) and Float(1.0): == and not the same.
C7_Witness ==
    \E a, b \in Slots :
        /\ stack[a] = Integer(NatBits(1))
        /\ stack[b] = Float(FFin(FALSE, {0}))
        /\ Eq(a, b)
        /\ ~Same(a, b)

\* C8: Display and Debug never fail and change neither the Value nor the
\* Table, whatever borrows of the Table are out.
C8_FmtTotal ==
    [][\A s \in Slots :
          (Display(s) \/ Debug(s)) =>
              (out'.ok /\ stack' = stack /\ heap' = heap)]_vars

\* C9: Tables are == by identity.  A Table just constructed is == to no
\* Value held before; a clone is == to its source and hashes like it; and
\* while two Values are held, no borrow and no mutation of a Table changes
\* whether they are ==.
C9_TableIdentity ==
    [][/\ \A s \in Slots : NewTable(s) =>
              \A b \in Slots \ {s} : ~Eq(s, b)' /\ ~Eq(b, s)'
       /\ \A src, dst \in Slots :
              (Clone(src, dst) /\ stack[src].tag = "Table") =>
                  /\ Eq(src, dst)' /\ Eq(dst, src)'
                  /\ hash(stack'[src]) = hash(stack'[dst])
       /\ \A a, b \in Slots :
              (stack'[a] = stack[a] /\ stack'[b] = stack[b]
                 /\ stack[a].tag = "Table" /\ stack[b].tag = "Table") =>
                  /\ Eq(a, b)' <=> Eq(a, b)
                  /\ Eq(a, b)' => hash(stack'[a]) = hash(stack'[b])]_vars

\* Two Tables with the same contents, held at once, not ==.
C9_Witness ==
    \E a, b \in Slots :
        /\ stack[a].tag = "Table" /\ stack[b].tag = "Table"
        /\ stack[a].rc # stack[b].rc
        /\ heap[stack[a].rc].array = heap[stack[b].rc].array
        /\ heap[stack[a].rc].map = heap[stack[b].rc].map
        /\ Len(heap[stack[a].rc].array) = 1
        /\ Len(heap[stack[a].rc].map) = 1
        /\ ~Eq(a, b)

\* C10: == is reflexive: every Value, every Float included, is == to itself.
C10_Reflexive == \A a \in Slots : Eq(a, a)

=============================================================================
